---- MODULE Spec2Model ----
\* The scrollable, optionally numbered, optionally word-wrapped line viewer of
\* src/src/widget/scroll_lines.rs: ScrollLinesState, its setters and toggles, and
\* ScrollLines::render with handle_scroll_events and the two paragraph builders.
EXTENDS Integers, Sequences, FiniteSets, TLC

VARIABLES
    lines,            \* Vec<Line<'static>>: the styled lines
    original_lines,   \* Vec<String>: the plain lines, measured for wrapping
    max_digits,       \* digits(lines.len())
    max_line_width,   \* widest styled line
    v_offset,         \* index of the top logical line
    h_offset,         \* leftmost column when wrap is off
    options,          \* [number, wrap]
    title,            \* frame title
    scroll_event,     \* the pending ScrollEvent
    panicked,         \* render panicked; the program has stopped
    last_op,          \* history: the last operation called
    prev,             \* history: offsets and options before the last operation
    resolved,         \* history: the event the last operation resolved (render only)
    setter_calls,     \* history: scroll setters called since the last render: 0, 1, 2 or more
    last_setter,      \* history: event of the last setter called since the last render
    window            \* history: <<width, height>> of the area the paging user renders on

vars == <<lines, original_lines, max_digits, max_line_width, v_offset, h_offset,
          options, title, scroll_event, panicked,
          last_op, prev, resolved, setter_calls, last_setter, window>>

----------------------------------------------------------------------------
\* Bounds of the model.

\* Longest content of the general specification, in logical lines.
MaxLines == 3
\* Largest terminal area handed to render: widths 3..MaxAreaWidth.
MaxAreaWidth == 7
\* Largest terminal area handed to render: heights 2..MaxAreaHeight.
MaxAreaHeight == 4
\* The width of the one line of the wide content, in columns.
WideLineWidth == 65537

\* usize arithmetic is modulo 2^64, which TLC's integers cannot hold. Every width
\* larger than the widest line wraps each line to one row, so the modulus is
\* represented by 2^30: UsizeModulus - 1 and - 2 stand for usize::MAX and
\* usize::MAX - 1.
UsizeModulus == 1073741824
\* `h_offset as u16` keeps the low 16 bits.
U16Modulus == 65536

Max(a, b) == IF a >= b THEN a ELSE b
Min(a, b) == IF a <= b THEN a ELSE b

\* usize::saturating_sub
SatSub(a, b) == IF a > b THEN a - b ELSE 0

----------------------------------------------------------------------------
\* Text. A line is a sequence of words <<width, trailing whitespace width>>, the
\* form textwrap splits a line into before it wraps.

None == "None"
ScrollEvents == {"None", "Forward", "Backward", "PageForward", "PageBackward",
                 "Top", "End", "Right", "Left"}

RECURSIVE LineWidth(_)
\* Line::width: the columns of a line.
LineWidth(line) ==
    IF line = <<>> THEN 0
    ELSE Head(line)[1] + Head(line)[2] + LineWidth(Tail(line))

RECURSIVE MaxWidth(_)
\* lines.iter().map(Line::width).max().unwrap_or_default()
MaxWidth(ls) ==
    IF ls = <<>> THEN 0 ELSE Max(LineWidth(Head(ls)), MaxWidth(Tail(ls)))

RECURSIVE digits(_)
\* util::digits: decimal digits of n, 1 for 0.
digits(n) == IF n < 10 THEN 1 ELSE 1 + digits(n \div 10)

RECURSIVE Pieces(_, _, _)
\* textwrap Word::break_apart: a word of width w cut into pieces of at most
\* line_width columns (one column when line_width is 0); the trailing whitespace
\* stays with the last piece.
Pieces(w, ws, line_width) ==
    LET step == Max(line_width, 1)
    IN IF w <= step THEN << <<w, ws>> >>
       ELSE << <<step, 0>> >> \o Pieces(w - step, ws, line_width)

RECURSIVE BreakWords(_, _)
\* textwrap break_words: only the words wider than the line are cut.
BreakWords(line, line_width) ==
    IF line = <<>> THEN <<>>
    ELSE LET word == Head(line)
         IN (IF word[1] > line_width
             THEN Pieces(word[1], word[2], line_width)
             ELSE <<word>>) \o BreakWords(Tail(line), line_width)

\* textwrap Penalties::new(), the penalties of WrapAlgorithm::new_optimal_fit,
\* the wrap algorithm of textwrap::Options::new when textwrap is built with its
\* default features. hyphen_penalty does not occur: no fragment of the model has
\* a penalty width (textwrap adds no hyphen after a hyphen that is in the text).
nline_penalty == 1000
overflow_penalty == 2500
short_last_line_fraction == 4
short_last_line_penalty == 25

\* The closure of wrap_optimal_fit: the cost of a line of fragments[i..j] that
\* is width columns wide without the whitespace at its end, after a break
\* before fragment i (0-based) that costs before.
LineCost(frags, i, j, width, before, line_width) ==
    LET target_width == Max(line_width, 1)
    IN before + nline_penalty
       + (IF width > target_width
          THEN (width - target_width) * overflow_penalty
          ELSE IF j < Len(frags)
          THEN (target_width - width) * (target_width - width)
          ELSE IF i + 1 = j /\ width * short_last_line_fraction < target_width
          THEN short_last_line_penalty
          ELSE 0)

RECURSIVE ColumnMinimum(_, _, _, _, _, _, _)
\* One column of smawk::online_column_minima: the cheapest break i < j before a
\* line that ends after fragment j, as [cost, rows]; of equally cheap breaks the
\* first one. The breaks are tried from i down to 0, width being the width of
\* fragments[i..j] and best the cheapest of the breaks after i (rows 0: none).
ColumnMinimum(frags, minima, i, j, width, best, line_width) ==
    LET cost == LineCost(frags, i, j, width, minima[i + 1].cost, line_width)
        better == IF best.rows = 0 \/ cost <= best.cost
                  THEN [cost |-> cost, rows |-> minima[i + 1].rows + 1]
                  ELSE best
    IN IF i = 0 THEN better
       ELSE ColumnMinimum(frags, minima, i - 1, j,
                          width + frags[i][1] + frags[i][2], better, line_width)

RECURSIVE Minima(_, _, _, _)
\* smawk::online_column_minima over the costs: minima holds the entries of the
\* columns 0..j-1 (column k at position k + 1).
Minima(frags, j, minima, line_width) ==
    IF j > Len(frags) THEN minima
    ELSE Minima(frags, j + 1,
                Append(minima,
                       ColumnMinimum(frags, minima, j - 1, j, frags[j][1],
                                     [cost |-> 0, rows |-> 0], line_width)),
                line_width)

\* textwrap wrap_optimal_fit: the number of rows; one (empty) row for no
\* fragment.
WrapOptimalFit(frags, line_width) ==
    IF frags = <<>> THEN 1
    ELSE Minima(frags, 1, << [cost |-> 0, rows |-> 0] >>,
                line_width)[Len(frags) + 1].rows

\* textwrap::wrap(line, width).len(): one row for a line shorter than width
\* (wrap_single_line), else the rows of the optimal fit of its words, those
\* wider than the line broken.
WrapLen(line, width) ==
    IF LineWidth(line) < width THEN 1
    ELSE WrapOptimalFit(BreakWords(line, width), width)

\* The closure of wrapped_line_width_iter and wrapped_reversed_line_width_iter.
LineHeight(line, width, wrap) == IF wrap THEN WrapLen(line, width) ELSE 1

\* lines.iter().skip(offset).take(height).map(..): heights of the lines from
\* index offset (0-based) on, at most height of them.
wrapped_line_width_iter(ls, offset, width, height, wrap) ==
    LET n == Min(height, SatSub(Len(ls), offset))
    IN [i \in 1..n |-> LineHeight(ls[offset + i], width, wrap)]

\* Mutant of wrapped_reversed_line_width_iter: rev() is missing, the walk starts
\* at the first line.
wrapped_line_width_iter_not_reversed(ls, offset, width, height, wrap) ==
    LET m == Min(offset, Len(ls))
        n == Min(height, m)
    IN [i \in 1..n |-> LineHeight(ls[i], width, wrap)]

\* lines.iter().take(offset).rev().take(height).map(..): heights of the lines
\* before index offset, nearest first, at most height of them.
wrapped_reversed_line_width_iter(ls, offset, width, height, wrap) ==
    LET m == Min(offset, Len(ls))
        n == Min(height, m)
    IN [i \in 1..n |-> LineHeight(ls[m - i + 1], width, wrap)]

----------------------------------------------------------------------------
\* Command resolution: handle_scroll_events. A state st is the record of the
\* fields of ScrollLinesState that resolution reads and writes.

\* ScrollEvent::Forward
Forward(st) ==
    IF st.v_offset < SatSub(Len(st.lines), 1)
    THEN [st EXCEPT !.v_offset = st.v_offset + 1]
    ELSE st

\* ScrollEvent::Backward
Backward(st) ==
    IF st.v_offset > 0
    THEN [st EXCEPT !.v_offset = SatSub(st.v_offset, 1)]
    ELSE st

RECURSIVE PageWalk(_, _, _, _)
\* The for loop of PageForward and PageBackward over the line heights hs from
\* position k on, with total_h accumulated so far: the count of lines and the
\* total height at the break, or count 0 and the total when the heights run out.
PageWalk(hs, k, total_h, height) ==
    IF k > Len(hs) THEN [count |-> 0, total_h |-> total_h]
    ELSE IF total_h + hs[k] >= height
         THEN [count |-> k, total_h |-> total_h + hs[k]]
         ELSE PageWalk(hs, k + 1, total_h + hs[k], height)

\* Mutant of PageForward: the offset is not decreased when the last line walked
\* overflows the window.
PageForwardNoCorrection(st, width, height) ==
    LET hs == wrapped_line_width_iter(st.original_lines, st.v_offset, width,
                                      height, st.options.wrap)
        w == PageWalk(hs, 1, 0, height)
    IN IF w.count > 0 THEN [st EXCEPT !.v_offset = st.v_offset + w.count]
       ELSE IF w.total_h < height
            THEN [st EXCEPT !.v_offset = SatSub(Len(st.lines), 1)]
            ELSE st

\* Mutant of PageForward: no jump to the last line when the lines run out.
PageForwardStaysWhenShort(st, width, height) ==
    LET hs == wrapped_line_width_iter(st.original_lines, st.v_offset, width,
                                      height, st.options.wrap)
        w == PageWalk(hs, 1, 0, height)
    IN IF w.count > 0
       THEN [st EXCEPT !.v_offset = st.v_offset + w.count
                                    - (IF w.total_h > height THEN 1 ELSE 0)]
       ELSE st

\* Mutant of PageForward: the offset is decreased by 1 also when the lines
\* walked fill the window exactly.
PageForwardAlwaysCorrects(st, width, height) ==
    LET hs == wrapped_line_width_iter(st.original_lines, st.v_offset, width,
                                      height, st.options.wrap)
        w == PageWalk(hs, 1, 0, height)
    IN IF w.total_h < height
       THEN [st EXCEPT !.v_offset = SatSub(Len(st.lines), 1)]
       ELSE IF w.count > 0
       THEN [st EXCEPT !.v_offset = st.v_offset + w.count - 1]
       ELSE st

\* ScrollEvent::PageForward
PageForward(st, width, height) ==
    LET hs == wrapped_line_width_iter(st.original_lines, st.v_offset, width,
                                      height, st.options.wrap)
        w == PageWalk(hs, 1, 0, height)
        moved == IF w.count > 0
                 THEN st.v_offset + w.count
                      - (IF w.total_h > height THEN 1 ELSE 0)
                 ELSE st.v_offset
    IN IF w.total_h < height
       THEN [st EXCEPT !.v_offset = SatSub(Len(st.lines), 1)]
       ELSE [st EXCEPT !.v_offset = moved]

\* Mutant of PageBackward: the offset is not increased when the first line
\* walked overflows the window.
PageBackwardNoCorrection(st, width, height) ==
    LET hs == wrapped_reversed_line_width_iter(st.original_lines, st.v_offset,
                                               width, height, st.options.wrap)
        w == PageWalk(hs, 1, 0, height)
    IN IF w.total_h < height THEN [st EXCEPT !.v_offset = 0]
       ELSE IF w.count > 0 THEN [st EXCEPT !.v_offset = st.v_offset - w.count]
       ELSE st

\* Mutant of PageBackward: no jump to the first line when the lines run out.
PageBackwardStaysWhenShort(st, width, height) ==
    LET hs == wrapped_reversed_line_width_iter(st.original_lines, st.v_offset,
                                               width, height, st.options.wrap)
        w == PageWalk(hs, 1, 0, height)
    IN IF w.count > 0
       THEN [st EXCEPT !.v_offset = st.v_offset - w.count
                                    + (IF w.total_h > height THEN 1 ELSE 0)]
       ELSE st

\* ScrollEvent::PageBackward
PageBackward(st, width, height) ==
    LET hs == wrapped_reversed_line_width_iter(st.original_lines, st.v_offset,
                                               width, height, st.options.wrap)
        w == PageWalk(hs, 1, 0, height)
        moved == IF w.count > 0
                 THEN st.v_offset - w.count
                      + (IF w.total_h > height THEN 1 ELSE 0)
                 ELSE st.v_offset
    IN IF w.total_h < height
       THEN [st EXCEPT !.v_offset = 0]
       ELSE [st EXCEPT !.v_offset = moved]

\* Mutant of Top: one line up, as Backward.
TopOneLineUp(st) == Backward(st)

\* ScrollEvent::Top
Top(st) == [st EXCEPT !.v_offset = 0]

\* Mutant of End: lines.len() - 1 without saturation.
EndNoSaturation(st) == [st EXCEPT !.v_offset = Len(st.lines) - 1]

\* ScrollEvent::End
End(st) == [st EXCEPT !.v_offset = SatSub(Len(st.lines), 1)]

\* ScrollEvent::Right
Right(st) ==
    IF st.h_offset < SatSub(st.max_line_width, 1)
    THEN [st EXCEPT !.h_offset = st.h_offset + 1]
    ELSE st

\* ScrollEvent::Left
Left(st) ==
    IF st.h_offset > 0
    THEN [st EXCEPT !.h_offset = SatSub(st.h_offset, 1)]
    ELSE st

\* The match of handle_scroll_events, before the event is reset.
Resolve(st, width, height) ==
    CASE st.scroll_event = "None" -> st
      [] st.scroll_event = "Forward" -> Forward(st)
      [] st.scroll_event = "Backward" -> Backward(st)
      [] st.scroll_event = "PageForward" -> PageForward(st, width, height)
      [] st.scroll_event = "PageBackward" -> PageBackward(st, width, height)
      [] st.scroll_event = "Top" -> Top(st)
      [] st.scroll_event = "End" -> End(st)
      [] st.scroll_event = "Right" -> Right(st)
      [] st.scroll_event = "Left" -> Left(st)

\* Mutant of handle_scroll_events: the event is not reset.
handle_scroll_events_no_reset(st, width, height) == Resolve(st, width, height)

\* Mutant of handle_scroll_events: with nothing pending the pan is refitted to
\* the width of the area.
handle_scroll_events_refits(st, width, height) ==
    IF st.scroll_event = None
    THEN [st EXCEPT !.h_offset = Min(st.h_offset, SatSub(st.max_line_width, width))]
    ELSE [Resolve(st, width, height) EXCEPT !.scroll_event = None]

\* handle_scroll_events: resolve the pending event, then reset it.
handle_scroll_events(st, width, height) ==
    [Resolve(st, width, height) EXCEPT !.scroll_event = None]

----------------------------------------------------------------------------
\* Content-block assembly.

\* Line::raw("")
Blank == <<>>

\* format!("{:>width$}", line, width = max_digits): the left padding and the number.
Label(line, width) == <<SatSub(width, digits(line)), line>>

RECURSIVE NumberRows(_, _, _, _, _)
\* The flat_map of build_line_numbers_paragraph over (line number, line height)
\* pairs: the number on the first row of a line and blanks on its other rows.
NumberRows(hs, i, line, lines_count, width) ==
    IF i > Len(hs) THEN <<>>
    ELSE (IF line > lines_count
          THEN <<Blank>>
          ELSE <<Label(line, width)>> \o [j \in 1..(hs[i] - 1) |-> Blank])
         \o NumberRows(hs, i + 1, line + 1, lines_count, width)

\* Mutant of build_line_numbers_paragraph: one row a line, whatever its height.
build_line_numbers_paragraph_unwrapped(st, text_area_width, show_lines_count) ==
    LET line_heights == wrapped_line_width_iter(st.original_lines, st.v_offset,
                            text_area_width, show_lines_count, FALSE)
        rows == NumberRows(line_heights, 1, st.v_offset + 1,
                           Len(st.original_lines), st.max_digits)
    IN SubSeq(rows, 1, Min(show_lines_count, Len(rows)))

\* build_line_numbers_paragraph: at most show_lines_count rows.
build_line_numbers_paragraph(st, text_area_width, show_lines_count) ==
    LET line_heights == wrapped_line_width_iter(st.original_lines, st.v_offset,
                            text_area_width, show_lines_count, st.options.wrap)
        rows == NumberRows(line_heights, 1, st.v_offset + 1,
                           Len(st.original_lines), st.max_digits)
    IN SubSeq(rows, 1, Min(show_lines_count, Len(rows)))

\* Mutant of build_lines_paragraph: the paragraph is panned by h_offset in wrap
\* mode too.
build_lines_paragraph_always_panned(st, show_lines_count) ==
    [lines |-> SubSeq(st.lines, st.v_offset + 1,
                      Min(st.v_offset + show_lines_count, Len(st.lines))),
     wrap |-> st.options.wrap,
     scroll |-> st.h_offset % U16Modulus]

\* build_lines_paragraph: the styled lines skip(v_offset).take(show_lines_count),
\* word-wrapped, or panned by h_offset as u16.
build_lines_paragraph(st, show_lines_count) ==
    [lines |-> SubSeq(st.lines, st.v_offset + 1,
                      Min(st.v_offset + show_lines_count, Len(st.lines))),
     wrap |-> st.options.wrap,
     scroll |-> IF st.options.wrap THEN 0 ELSE st.h_offset % U16Modulus]

RECURSIVE Symbols(_)
\* The columns of a line, in order: TRUE for a whitespace column.
Symbols(line) ==
    IF line = <<>> THEN <<>>
    ELSE [i \in 1..(Head(line)[1] + Head(line)[2]) |-> i > Head(line)[1]]
         \o Symbols(Tail(line))

RECURSIVE WordWrapper(_, _, _, _, _, _, _)
\* Paragraph::wrap(Wrap { trim: false }): the rows ratatui's word wrapper pushes
\* for the columns syms from position i on, at most max_width columns a row
\* (its max_line_width),
\* with line_width columns in the current row, word_width columns of unfinished
\* word and whitespace_width columns of whitespace before it. A row breaks at
\* whitespace only, or inside a word wider than the row.
WordWrapper(syms, i, max_width, line_width, word_width, whitespace_width, has_seen_non_whitespace) ==
    IF i > Len(syms)
    THEN (IF word_width > 0 \/ whitespace_width > 0 \/ line_width > 0
          THEN 1 ELSE 0)
    ELSE LET ws == syms[i]
             append == \/ has_seen_non_whitespace /\ ws
                       \/ /\ word_width + whitespace_width + 1 > max_width
                          /\ line_width = 0
             lw == IF append THEN line_width + whitespace_width + word_width
                   ELSE line_width
             ww == IF append THEN 0 ELSE word_width
             wsw == IF append THEN 0 ELSE whitespace_width
             push == lw >= max_width \/ lw + wsw + ww >= max_width
             remaining == Max(max_width - lw, 0)
             exhausted == wsw <= remaining
             left == IF exhausted THEN 0 ELSE wsw - (remaining + 1)
         IN IF push /\ ws /\ exhausted
            THEN 1 + WordWrapper(syms, i + 1, max_width, 0, ww, 0,
                                 has_seen_non_whitespace)
            ELSE IF push
            THEN 1 + WordWrapper(syms, i + 1, max_width, 0,
                                 IF ws THEN ww ELSE ww + 1,
                                 IF ws THEN left + 1 ELSE left, ~ws)
            ELSE WordWrapper(syms, i + 1, max_width, lw,
                             IF ws THEN ww ELSE ww + 1,
                             IF ws THEN wsw + 1 ELSE wsw, ~ws)

\* The rows one line takes in the body paragraph width columns wide: one when
\* wrap is off, else the rows of the word wrapper, an empty line taking one.
ParagraphRows(line, width, wrap) ==
    IF wrap THEN Max(1, WordWrapper(Symbols(line), 1, width, 0, 0, 0, FALSE))
    ELSE 1

\* Block::padding(Padding::horizontal(1)) of the body paragraph: the columns
\* left for the text in a chunk body_width columns wide.
BodyTextWidth(body_width) == SatSub(body_width, 2)

RECURSIVE StartRows(_, _, _, _, _)
\* The row (0-based) at which each line of ls from position i on starts in a
\* paragraph width columns wide, the first of them at the given row.
StartRows(ls, i, row, width, wrap) ==
    IF i > Len(ls) THEN <<>>
    ELSE <<row>> \o StartRows(ls, i + 1,
                              row + ParagraphRows(ls[i], width, wrap), width, wrap)

\* lines_paragraph.render(chunks[1], buf): the rows at which the lines of the
\* body paragraph start, those of them the chunk's height shows; none in a
\* chunk with no column for the text.
BodyStartRows(paragraph, body_width, height) ==
    IF BodyTextWidth(body_width) = 0 THEN <<>>
    ELSE SelectSeq(StartRows(paragraph.lines, 1, 0, BodyTextWidth(body_width),
                             paragraph.wrap),
                   LAMBDA row : row < height)

\* Rect::inner(&Margin::new(1, 1)): the area inside the border, the empty
\* rectangle when the area is too small to hold one.
Inner(w, h) ==
    IF w < 2 \/ h < 2 THEN [width |-> 0, height |-> 0]
    ELSE [width |-> w - 2, height |-> h - 2]

\* Layout::horizontal([Length(line_numbers_width), Min(0)]).split(content_area):
\* the widths of the two chunks.
Chunks(line_numbers_width, width) ==
    LET first == Min(line_numbers_width, width)
    IN <<first, width - first>>

----------------------------------------------------------------------------
\* The state machine.

\* The fields of ScrollLinesState as a record.
State ==
    [lines |-> lines, original_lines |-> original_lines,
     max_digits |-> max_digits, max_line_width |-> max_line_width,
     v_offset |-> v_offset, h_offset |-> h_offset, options |-> options,
     scroll_event |-> scroll_event]

\* History: what the last operation started from.
Snapshot == [v_offset |-> v_offset, h_offset |-> h_offset, options |-> options]

Short == << <<1, 0>> >>
Tall == << <<2, 1>>, <<1, 0>> >>

\* The contents of the general specification: up to MaxLines lines, each "a"
\* or "ab c".
Docs == UNION {[1..n -> {Short, Tall}] : n \in 0..MaxLines}

\* Narrower areas than 3 columns leave, like 3 columns, no room for the text.
AreaWidths == 3..MaxAreaWidth
\* Shorter areas than 2 rows leave, like 2 rows, no row for the text.
AreaHeights == 2..MaxAreaHeight

\* ScrollLinesState::new on styled lines ls and plain lines plain.
New(ls, plain, opts) ==
    /\ lines = ls
    /\ original_lines = plain
    /\ max_digits = digits(Len(ls))
    /\ max_line_width = MaxWidth(ls)
    /\ options = opts
    /\ title = "TITLE"
    /\ v_offset = 0
    /\ h_offset = 0
    /\ scroll_event = None
    /\ panicked = FALSE
    /\ last_op = "new"
    /\ prev = [v_offset |-> 0, h_offset |-> 0, options |-> opts]
    /\ resolved = None
    /\ setter_calls = 0
    /\ last_setter = None
    /\ window = <<>>

\* ScrollLinesState::default(), the derived Default of the public struct: no
\* line, max_digits 0 (new gives digits(0) = 1), the default options, no title.
Default ==
    /\ lines = <<>>
    /\ original_lines = <<>>
    /\ max_digits = 0
    /\ max_line_width = 0
    /\ options = [number |-> TRUE, wrap |-> TRUE]
    /\ title = ""
    /\ v_offset = 0
    /\ h_offset = 0
    /\ scroll_event = None
    /\ panicked = FALSE
    /\ last_op = "default"
    /\ prev = [v_offset |-> 0, h_offset |-> 0,
               options |-> [number |-> TRUE, wrap |-> TRUE]]
    /\ resolved = None
    /\ setter_calls = 0
    /\ last_setter = None
    /\ window = <<>>

Init ==
    \/ \E ls \in Docs, number \in BOOLEAN, wrap \in BOOLEAN :
          New(ls, ls, [number |-> number, wrap |-> wrap])
    \/ Default

\* What every scroll setter does: overwrite the pending event.
SetEvent(event) ==
    /\ ~panicked
    /\ scroll_event' = event
    /\ last_op' = "set"
    /\ prev' = Snapshot
    /\ resolved' = None
    /\ setter_calls' = Min(setter_calls + 1, 2)
    /\ last_setter' = event
    /\ UNCHANGED <<lines, original_lines, max_digits, max_line_width, v_offset,
                   h_offset, options, title, panicked, window>>

scroll_forward == SetEvent("Forward")

scroll_backward == SetEvent("Backward")

scroll_page_forward == SetEvent("PageForward")

scroll_page_backward == SetEvent("PageBackward")

\* Mutant of scroll_to_top: a pending event is kept (first writer wins).
scroll_to_top_keeps_pending ==
    /\ ~panicked
    /\ scroll_event' = IF scroll_event = None THEN "Top" ELSE scroll_event
    /\ last_op' = "set"
    /\ prev' = Snapshot
    /\ resolved' = None
    /\ setter_calls' = Min(setter_calls + 1, 2)
    /\ last_setter' = "Top"
    /\ UNCHANGED <<lines, original_lines, max_digits, max_line_width, v_offset,
                   h_offset, options, title, panicked, window>>

scroll_to_top == SetEvent("Top")

\* Mutant of scroll_to_end: the offset moves at once, before any render.
scroll_to_end_moves_now ==
    /\ ~panicked
    /\ scroll_event' = "End"
    /\ v_offset' = SatSub(Len(lines), 1)
    /\ last_op' = "set"
    /\ prev' = Snapshot
    /\ resolved' = None
    /\ setter_calls' = Min(setter_calls + 1, 2)
    /\ last_setter' = "End"
    /\ UNCHANGED <<lines, original_lines, max_digits, max_line_width,
                   h_offset, options, title, panicked, window>>

scroll_to_end == SetEvent("End")

scroll_right == SetEvent("Right")

scroll_left == SetEvent("Left")

\* Mutant of toggle_wrap: the horizontal offset is kept.
toggle_wrap_keeps_h_offset ==
    /\ ~panicked
    /\ options' = [options EXCEPT !.wrap = ~options.wrap]
    /\ last_op' = "toggle_wrap"
    /\ prev' = Snapshot
    /\ resolved' = None
    /\ UNCHANGED <<lines, original_lines, max_digits, max_line_width, v_offset,
                   h_offset, title, scroll_event, panicked,
                   setter_calls, last_setter, window>>

\* Mutant of toggle_wrap: the pending event is dropped.
toggle_wrap_drops_pending ==
    /\ ~panicked
    /\ options' = [options EXCEPT !.wrap = ~options.wrap]
    /\ h_offset' = 0
    /\ scroll_event' = None
    /\ last_op' = "toggle_wrap"
    /\ prev' = Snapshot
    /\ resolved' = None
    /\ UNCHANGED <<lines, original_lines, max_digits, max_line_width, v_offset,
                   title, panicked, setter_calls, last_setter, window>>

toggle_wrap ==
    /\ ~panicked
    /\ options' = [options EXCEPT !.wrap = ~options.wrap]
    /\ h_offset' = 0
    /\ last_op' = "toggle_wrap"
    /\ prev' = Snapshot
    /\ resolved' = None
    /\ UNCHANGED <<lines, original_lines, max_digits, max_line_width, v_offset,
                   title, scroll_event, panicked,
                   setter_calls, last_setter, window>>

\* Mutant of toggle_number: it resets the horizontal offset as toggle_wrap does.
toggle_number_resets_h_offset ==
    /\ ~panicked
    /\ options' = [options EXCEPT !.number = ~options.number]
    /\ h_offset' = 0
    /\ last_op' = "toggle_number"
    /\ prev' = Snapshot
    /\ resolved' = None
    /\ UNCHANGED <<lines, original_lines, max_digits, max_line_width, v_offset,
                   title, scroll_event, panicked,
                   setter_calls, last_setter, window>>

toggle_number ==
    /\ ~panicked
    /\ options' = [options EXCEPT !.number = ~options.number]
    /\ last_op' = "toggle_number"
    /\ prev' = Snapshot
    /\ resolved' = None
    /\ UNCHANGED <<lines, original_lines, max_digits, max_line_width, v_offset,
                   h_offset, title, scroll_event, panicked,
                   setter_calls, last_setter, window>>

\* let text_area_width = chunks[1].width as usize - 2: the subtraction overflows
\* when the body chunk is narrower than its padding.
TextAreaWidth(body_width) ==
    IF body_width >= 2 THEN body_width - 2 ELSE UsizeModulus + body_width - 2

\* The geometry of ScrollLines::render on state st and an area of the given
\* width and height: the chunks, the rows shown and the text width, and whether
\* computing the text width panics in a build with overflow checks.
Geometry(st, area_width, area_height, checks) ==
    LET content_area == Inner(area_width, area_height)
        line_numbers_width == IF st.options.number THEN st.max_digits + 1 ELSE 0
        chunks == Chunks(line_numbers_width, content_area.width)
    IN [panicked |-> chunks[2] < 2 /\ checks,
        gutter_width |-> chunks[1],
        body_width |-> chunks[2],
        show_lines_count |-> content_area.height,
        text_area_width |-> TextAreaWidth(chunks[2])]

\* The state ScrollLines::render leaves with geometry g: st itself when it
\* panics, else st with the pending event resolved.
Resolved(st, g) ==
    IF g.panicked THEN st
    ELSE handle_scroll_events(st, g.text_area_width, g.show_lines_count)

\* The state ScrollLines::render leaves on an area of the given width and height.
RenderState(st, area_width, area_height, checks) ==
    Resolved(st, Geometry(st, area_width, area_height, checks))

\* The two paragraphs ScrollLines::render paints with geometry g once the
\* event is resolved: none when it panics, which it does before it builds them.
Painted(after, g) ==
    IF g.panicked
    THEN [line_numbers |-> <<>>,
          body |-> [lines |-> <<>>, wrap |-> FALSE, scroll |-> 0]]
    ELSE [line_numbers |-> build_line_numbers_paragraph(
                              after, g.text_area_width, g.show_lines_count),
          body |-> build_lines_paragraph(after, g.show_lines_count)]

\* The two paragraphs ScrollLines::render paints on an area of the given width
\* and height.
RenderFrame(st, area_width, area_height, checks) ==
    LET g == Geometry(st, area_width, area_height, checks)
    IN Painted(Resolved(st, g), g)

\* The builds that differ on this render: both when the subtraction overflows
\* (a debug build panics, a release build wraps around), else one.
Builds(st, area_width, area_height) ==
    IF Geometry(st, area_width, area_height, TRUE).panicked
    THEN BOOLEAN ELSE {FALSE}

\* ScrollLines::render on an area of the given width and height, in a build
\* with (checks) or without overflow checks.
render(area_width, area_height, checks) ==
    /\ ~panicked
    /\ LET st == State
           g == Geometry(st, area_width, area_height, checks)
           after == Resolved(st, g)
       IN /\ panicked' = g.panicked
          /\ v_offset' = after.v_offset
          /\ h_offset' = after.h_offset
          /\ scroll_event' = after.scroll_event
    /\ last_op' = "render"
    /\ prev' = Snapshot
    /\ resolved' = scroll_event
    /\ setter_calls' = 0
    /\ last_setter' = None
    /\ UNCHANGED <<lines, original_lines, max_digits, max_line_width, options,
                   title>>

Render ==
    \E w \in AreaWidths, h \in AreaHeights :
        \E checks \in Builds(State, w, h) :
            render(w, h, checks) /\ UNCHANGED window

Next ==
    \/ scroll_forward
    \/ scroll_backward
    \/ scroll_page_forward
    \/ scroll_page_backward
    \/ scroll_to_top
    \/ scroll_to_end
    \/ scroll_right
    \/ scroll_left
    \/ toggle_wrap
    \/ toggle_number
    \/ Render

Spec == Init /\ [][Next]_vars

----------------------------------------------------------------------------
\* The fixture of the unit tests: tests::state and tests::render_scroll_lines.

Word(n) == << <<n, 0>> >>
Words3(n) == [i \in 1..n |-> IF i < n THEN <<3, 1>> ELSE <<3, 0>>]

\* The 16 lines of tests::state.
FixtureLines ==
    << Words3(4),                    \* "aaa bbb ccc ddd"
       Words3(3),                    \* "aaa bbb ccc"
       Words3(1),                    \* "aaa"
       << <<3, 1>>, <<3, 1>> >>,     \* "aaa bbb "
       Words3(5),                    \* "aaa bbb ccc ddd eee"
       << <<8, 1>>, <<8, 0>> >>,     \* "aaaaaaaa bbbbbbbb"
       <<>>,                         \* ""
       Word(20),                     \* "01234567890123456789"
       Word(1), Word(1), Word(1), Word(1), Word(1),   \* "a" .. "e"
       Words3(7),                    \* "aaa bbb ccc ddd eee fff ggg"
       Word(1), Word(1) >>           \* "f", "g"

\* Buffer::empty(Rect::new(0, 0, 20, 5 + 2))
FixtureWidth == 20
FixtureHeight == 7

InitFixture ==
    \E number \in BOOLEAN, wrap \in BOOLEAN :
       New(FixtureLines, FixtureLines, [number |-> number, wrap |-> wrap])

RenderFixture ==
    \E checks \in Builds(State, FixtureWidth, FixtureHeight) :
        render(FixtureWidth, FixtureHeight, checks) /\ UNCHANGED window

NextFixture ==
    \/ scroll_forward
    \/ scroll_backward
    \/ scroll_page_forward
    \/ scroll_page_backward
    \/ scroll_to_top
    \/ scroll_to_end
    \/ scroll_right
    \/ scroll_left
    \/ toggle_wrap
    \/ toggle_number
    \/ RenderFixture

\* The fixture scrolled, panned and toggled in the 20 x 7 area of the tests.
SpecFixture == InitFixture /\ [][NextFixture]_vars

----------------------------------------------------------------------------
\* One line wider than a u16 can count, shown unwrapped and panned to the right.

\* A single word of WideLineWidth columns.
WideLines == << Word(WideLineWidth) >>

InitWide == New(WideLines, WideLines, [number |-> FALSE, wrap |-> FALSE])

NextWide ==
    \/ scroll_right
    \/ RenderFixture

SpecWide == InitWide /\ [][NextWide]_vars

----------------------------------------------------------------------------
\* A line with a hyphenated word, which textwrap may break after the hyphen,
\* above two short lines.

\* "aaaaaaaaa bbb-ccc ddddddddd", "e", "f"
HyphenLines ==
    << << <<9, 1>>, <<4, 0>>, <<3, 1>>, <<9, 0>> >>, Word(1), Word(1) >>

InitHyphen ==
    \E number \in BOOLEAN, wrap \in BOOLEAN :
       New(HyphenLines, HyphenLines, [number |-> number, wrap |-> wrap])

\* The hyphenated content scrolled vertically in the 20 x 7 area.
SpecHyphen == InitHyphen /\ [][NextFixture]_vars

----------------------------------------------------------------------------
\* One content of MaxLines lines, "ab c" and "a" in turn, under every operation
\* and in every area.

PanLines == [i \in 1..MaxLines |-> IF i % 2 = 1 THEN Tall ELSE Short]

InitPan ==
    \E number \in BOOLEAN, wrap \in BOOLEAN :
       New(PanLines, PanLines, [number |-> number, wrap |-> wrap])

SpecPan == InitPan /\ [][Next]_vars

----------------------------------------------------------------------------
\* The hyphenated line above four short lines: a page of five rows by the
\* heights of textwrap, six rows in the paragraph.

\* "aaaaaaaaa bbb-ccc ddddddddd", "e", "f", "g", "h"
HyphenPageLines == HyphenLines \o << Word(1), Word(1) >>

InitHyphenPage ==
    \E number \in BOOLEAN, wrap \in BOOLEAN :
       New(HyphenPageLines, HyphenPageLines, [number |-> number, wrap |-> wrap])

SpecHyphenPage == InitHyphenPage /\ [][NextFixture]_vars

----------------------------------------------------------------------------
\* A user who pages, from the top or after a first jump to the end, and keeps
\* doing so, in a terminal that is not resized: every render is on the area of
\* the first, which has at least one row for the text.

PageHeights == 3..MaxAreaHeight

RenderPage ==
    \E w \in AreaWidths, h \in PageHeights :
        /\ window \in {<<>>, <<w, h>>}
        /\ \E checks \in Builds(State, w, h) : render(w, h, checks)
        /\ window' = <<w, h>>

\* scroll_to_end as the user's first call.
EndFirst == last_op \in {"new", "default"} /\ scroll_to_end

NextPaging ==
    \/ scroll_page_forward
    \/ scroll_page_backward
    \/ EndFirst
    \/ RenderPage

\* The program goes on: as long as a call can change the state, one is made.
SpecPaging == Init /\ [][NextPaging]_vars /\ WF_vars(NextPaging)

----------------------------------------------------------------------------
\* Construction from any styled lines and any plain lines: ScrollLinesState::new
\* takes the two vectors as they come.

Prefixes == {SubSeq(PanLines, 1, n) : n \in 0..MaxLines}

InitUnchecked ==
    \E ls \in Prefixes, plain \in Prefixes, number \in BOOLEAN, wrap \in BOOLEAN :
       New(ls, plain, [number |-> number, wrap |-> wrap])

SpecUnchecked == InitUnchecked /\ [][NextFixture]_vars

----------------------------------------------------------------------------
\* Properties.

N == Len(lines)

\* The completed render just before this state.
Rendered == last_op = "render" /\ ~panicked

RECURSIVE Rows(_, _, _, _)
\* The display rows the logical lines from..to (0-based, inclusive) of st occupy
\* at the given text width.
Rows(st, from, to, width) ==
    IF from > to \/ from >= Len(st.original_lines) THEN 0
    ELSE LineHeight(st.original_lines[from + 1], width, st.options.wrap)
         + Rows(st, from + 1, to, width)

\* st with event pending.
Pending(st, event) == [st EXCEPT !.scroll_event = event]

\* C1 (as claimed): after each render 0 <= v_offset <= max(N-1, 0) and
\* 0 <= h_offset <= max(max_line_width-1, 0).
C1_OffsetsInRange ==
    Rendered =>
        /\ 0 <= v_offset /\ v_offset <= Max(N - 1, 0)
        /\ 0 <= h_offset /\ h_offset <= Max(max_line_width - 1, 0)

\* C2: the pending command is one-shot: every render that returns leaves
\* scroll_event = None, and a render with no setter call since the render before
\* it leaves v_offset and h_offset unchanged.
C2_PendingIsOneShot ==
    [][(last_op' = "render" /\ ~panicked') =>
          /\ scroll_event' = None
          /\ setter_calls = 0 => (v_offset' = v_offset /\ h_offset' = h_offset)]_vars

\* A render with nothing pending, after an earlier render moved the offset.
C2_Witness ==
    Rendered /\ resolved = None /\ scroll_event = None /\ v_offset > 0

\* C3: setters are last-writer-wins: after two or more setters with no render
\* between them, the render resolves the event of the last setter and leaves the
\* offsets that resolving that event alone gives.
C3_LastWriterWins ==
    [][(last_op' = "render" /\ ~panicked' /\ setter_calls >= 2) =>
          \E w \in AreaWidths, h \in AreaHeights :
             /\ render(w, h, FALSE)
             /\ resolved' = last_setter
             /\ LET alone == RenderState(Pending(State, last_setter), w, h, FALSE)
                IN v_offset' = alone.v_offset /\ h_offset' = alone.h_offset]_vars

\* Two setters were called since the last render; the later one, Top, is
\* pending on a scrolled view.
C3_Witness ==
    /\ setter_calls >= 2 /\ last_setter = "Top" /\ scroll_event = "Top"
    /\ v_offset > 0 /\ ~panicked

\* PageForward and then PageBackward from st in the same area: the offsets
\* after each, and the rows the lines from the final top to the original top
\* occupy.
RoundTrip(st, w, h) ==
    LET g == Geometry(st, w, h, FALSE)
        s1 == RenderState(Pending(st, "PageForward"), w, h, FALSE)
        s2 == RenderState(Pending(s1, "PageBackward"), w, h, FALSE)
    IN [v0 |-> st.v_offset, v1 |-> s1.v_offset, v2 |-> s2.v_offset,
        height |-> g.show_lines_count,
        rows |-> Rows(st, s2.v_offset, st.v_offset, g.text_area_width)]

\* C4 (as claimed): PageForward then PageBackward, from every starting offset v0
\* at which PageForward is pending and in every area, ends at v2 <= v0 with the
\* lines v2..v0 fitting in the H rows. Read with H >= 1 and a line v0 that fits
\* in H rows, so that it can be fully visible at all.
C4_RoundTripShowsOriginalTop ==
    (scroll_event = "PageForward" /\ ~panicked) =>
        \A w \in AreaWidths, h \in AreaHeights :
            LET r == RoundTrip(State, w, h)
                g == Geometry(State, w, h, FALSE)
            IN (/\ r.height >= 1
                /\ r.v0 < N
                /\ Rows(State, r.v0, r.v0, g.text_area_width) <= r.height)
               => (r.v2 <= r.v0 /\ r.rows <= r.height)

\* C4 (amended): the same whenever the PageForward advanced the offset.
C4_RoundTripWhenAdvanced ==
    (scroll_event = "PageForward" /\ ~panicked) =>
        \A w \in AreaWidths, h \in AreaHeights :
            LET r == RoundTrip(State, w, h)
            IN r.v1 > r.v0 => (r.v2 <= r.v0 /\ r.rows <= r.height)

\* A render resolved PageBackward and moved up, in a state from which the round
\* trip advances and comes back above the starting line.
C4_Witness ==
    /\ Rendered /\ resolved = "PageBackward" /\ v_offset < prev.v_offset
    /\ \E w \in AreaWidths, h \in AreaHeights :
          LET r == RoundTrip(State, w, h)
          IN r.v1 > r.v0 /\ r.v2 <= r.v0 /\ r.v0 > 0

\* The geometry of the fixture's area.
FixtureGeometry == Geometry(State, FixtureWidth, FixtureHeight, FALSE)

\* A render of the fixture resolved PageForward from the top, wrapped and
\* without line numbers: a body 16 columns wide and 5 rows high.
C5_Case ==
    /\ Rendered /\ resolved = "PageForward" /\ prev.v_offset = 0
    /\ options.wrap /\ ~options.number

\* The scenario's geometry and heights: text width 16, 5 rows, and the first
\* five lines 1, 1, 1, 1 and 2 rows high.
C5_Scenario ==
    /\ N = 16
    /\ FixtureGeometry.text_area_width = 16
    /\ FixtureGeometry.show_lines_count = 5
    /\ [i \in 1..5 |-> LineHeight(original_lines[i], 16, TRUE)] = <<1, 1, 1, 1, 2>>

\* C5 (as claimed): in the scenario one PageForward from the top makes 1-based
\* line 6 the top line (v_offset = 5).
C5_PageForwardLandsOnLine6 == C5_Case => (C5_Scenario /\ v_offset = 5)

\* C5 (amended): in the scenario one PageForward from the top makes 1-based
\* line 5, the line cut by the bottom of the window, the top line (v_offset = 4).
C5_PageForwardLandsOnLine5 == C5_Case => (C5_Scenario /\ v_offset = 4)

\* The PageForward of the scenario was resolved.
C5_Witness == C5_Case /\ v_offset > 0

\* A render of the fixture resolved PageBackward from the last line.
C6_Case == Rendered /\ resolved = "PageBackward" /\ prev.v_offset = 15

\* C6 (as claimed): End sets v_offset = 15, and a PageBackward from there lands
\* on v with the line at v fully visible and line 15 still inside the 5-row
\* window anchored at v.
C6_LastLineStillVisible ==
    /\ (Rendered /\ resolved = "End") => v_offset = 15
    /\ C6_Case =>
          /\ FixtureGeometry.show_lines_count = 5
          /\ Rows(State, v_offset, v_offset, FixtureGeometry.text_area_width) <= 5
          /\ Rows(State, v_offset, 15, FixtureGeometry.text_area_width) <= 5

\* C6 (amended): End sets v_offset = 15, and a PageBackward from there lands on
\* v < 15 with the lines v..14 filling the 5 rows exactly: the line at v is fully
\* visible at the top, line 14 is at the bottom and line 15 is below the window.
C6_LinesBeforeLastFillWindow ==
    /\ (Rendered /\ resolved = "End") => v_offset = 15
    /\ C6_Case =>
          /\ FixtureGeometry.show_lines_count = 5
          /\ v_offset < 15
          /\ Rows(State, v_offset, v_offset, FixtureGeometry.text_area_width) <= 5
          /\ Rows(State, v_offset, 14, FixtureGeometry.text_area_width) = 5

\* The PageBackward from the last line was resolved on wrapped text.
C6_Witness == C6_Case /\ options.wrap /\ options.number /\ v_offset = 12

\* C7 (as claimed): for every content-area width render completes and uses
\* text_width = max(1, W - gutter_width - 2).
C7_TextWidthFlooredToOne ==
    ~panicked =>
        \A w \in AreaWidths, h \in AreaHeights :
            \A checks \in Builds(State, w, h) :
                LET g == Geometry(State, w, h, checks)
                    gutter == IF options.number THEN max_digits + 1 ELSE 0
                IN /\ ~g.panicked
                   /\ g.text_area_width = Max(1, Inner(w, h).width - gutter - 2)

\* C8: with no logical lines every scroll command followed by a render, in every
\* area, leaves both offsets 0, and neither block has a row.
C8_EmptyContentIsInert ==
    N = 0 =>
        /\ v_offset = 0 /\ h_offset = 0
        /\ \A w \in AreaWidths, h \in AreaHeights, event \in ScrollEvents :
              \A checks \in Builds(State, w, h) :
                 LET st == Pending(State, event)
                     after == RenderState(st, w, h, checks)
                     f == RenderFrame(st, w, h, checks)
                 IN /\ after.v_offset = 0 /\ after.h_offset = 0
                    /\ f.line_numbers = <<>> /\ f.body.lines = <<>>

\* A render resolved End on empty content.
C8_Witness == N = 0 /\ Rendered /\ resolved = "End"

\* C10: toggle_wrap flips options.wrap and sets h_offset to 0; the second of two
\* calls in a row restores the wrap option the first one found.
C10_ToggleWrap ==
    [][last_op' = "toggle_wrap" =>
          /\ options'.wrap = ~options.wrap
          /\ h_offset' = 0
          /\ last_op = "toggle_wrap" =>
                (options'.wrap = prev.options.wrap /\ h_offset = 0)]_vars

\* toggle_wrap was called on a panned view.
C10_Witness ==
    last_op = "toggle_wrap" /\ prev.h_offset > 0 /\ h_offset = 0 /\ options.wrap

\* The frame of a render of the fixture's area with nothing pending.
FixtureFrame == RenderFrame(Pending(State, None), FixtureWidth, FixtureHeight, FALSE)

\* C9 (as claimed): with wrap disabled a resolved Right raises h_offset by 1
\* below max_line_width - 1 and leaves it there, and the body of every frame is
\* panned to column h_offset.
C9_RightClampsAndPans ==
    (Rendered /\ ~options.wrap) =>
        /\ resolved = "Right" =>
              h_offset = IF prev.h_offset < max_line_width - 1
                         THEN prev.h_offset + 1 ELSE prev.h_offset
        /\ ~FixtureFrame.body.wrap
        /\ FixtureFrame.body.scroll = h_offset

\* A toggle_number step flips options.number and leaves the offsets and
\* options.wrap as they were.
ToggleNumberFlips ==
    /\ options'.number = ~options.number
    /\ options'.wrap = options.wrap
    /\ v_offset' = v_offset /\ h_offset' = h_offset

\* The renders that follow a toggle_number step with nothing pending and
\* complete: the gutter is Gutter(W) columns wide when number is on, W being the
\* content width, and 0 when it is off, where the body has all W columns; and
\* v_offset is what it was before the toggle.
ToggleNumberRenders(Gutter(_)) ==
    \A w \in AreaWidths, h \in AreaHeights :
       \A checks \in Builds(State', w, h) :
          LET g == Geometry(State', w, h, checks)
              after == RenderState(Pending(State', None), w, h, checks)
              content_width == Inner(w, h).width
          IN ~g.panicked =>
                /\ options'.number => g.gutter_width = Gutter(content_width)
                /\ ~options'.number =>
                      (g.gutter_width = 0 /\ g.body_width = content_width)
                /\ after.v_offset = v_offset

\* C11 (as claimed): toggle_number flips options.number and leaves v_offset,
\* h_offset and options.wrap unchanged; the following render has gutter width 0
\* and the full content width for the body when number is off, gutter width
\* max_digits + 1 when it is on, and the same v_offset.
C11_ToggleNumber ==
    [][last_op' = "toggle_number" =>
          /\ ToggleNumberFlips
          /\ LET Gutter(content_width) == max_digits + 1
             IN ToggleNumberRenders(Gutter)]_vars

\* C11 (amended): the same with gutter width min(max_digits + 1, W) when
\* number is on, W being the content width.
C11_ToggleNumberGutterFits ==
    [][last_op' = "toggle_number" =>
          /\ ToggleNumberFlips
          /\ LET Gutter(content_width) == Min(max_digits + 1, content_width)
             IN ToggleNumberRenders(Gutter)]_vars

\* toggle_number switched the line numbers back on in a scrolled, panned view.
C11_Witness ==
    /\ last_op = "toggle_number" /\ options.number /\ ~prev.options.number
    /\ v_offset > 0 /\ h_offset > 0

\* C12 (as claimed): after every render with number and wrap on, the gutter and
\* the body are laid out at the same text width, and every logical line the body
\* shows starts at the row that carries its number in the gutter.
C12_GutterAlignedWithBody ==
    (Rendered /\ options.number /\ options.wrap) =>
        LET g == FixtureGeometry
            starts == BodyStartRows(FixtureFrame.body, g.body_width,
                                    g.show_lines_count)
            gutter == FixtureFrame.line_numbers
        IN /\ BodyTextWidth(g.body_width) = g.text_area_width
           /\ \A k \in 1..Len(starts) :
                 /\ starts[k] + 1 <= Len(gutter)
                 /\ gutter[starts[k] + 1] = Label(v_offset + k, max_digits)

\* st as it is in a run that differs only in the Right and Left events it
\* resolved in wrap mode: the same but for the horizontal offset.
Twin(st, other_h_offset) == [st EXCEPT !.h_offset = other_h_offset]

\* C13: while wrap is on, resolving Right or Left has no visible effect, now or
\* later. Two states that differ only in h_offset (all that resolving Right or
\* Left instead of None changes) give, for every event, area and build, the same
\* frame and states that again differ only in h_offset; resolving Right or Left
\* gives the frame and the v_offset that resolving None gives; and toggle_wrap,
\* the only way out of wrap mode, leaves h_offset = 0 in both runs. The event is
\* the quantified one, so the states with nothing pending stand for all.
C13_PanInvisibleWhenWrapped ==
    ~panicked =>
        /\ last_op = "toggle_wrap" => h_offset = 0
        /\ (options.wrap /\ scroll_event = None) =>
              \A other \in 0..Max(max_line_width - 1, 0) :
              \A w \in AreaWidths, h \in AreaHeights :
              \A checks \in Builds(State, w, h) :
                 LET g == Geometry(State, w, h, checks)
                     twin == Twin(State, other)
                     none == Painted(Resolved(Pending(twin, None), g), g)
                 IN \A event \in ScrollEvents :
                       LET a == Resolved(Pending(State, event), g)
                           b == Resolved(Pending(twin, event), g)
                       IN /\ Twin(a, 0) = Twin(b, 0)
                          /\ Painted(a, g) = Painted(b, g)
                          /\ event \in {"Right", "Left"} =>
                                (a.v_offset = v_offset /\ Painted(a, g) = none)

\* A render resolved Right in wrap mode and moved the hidden horizontal offset.
C13_Witness ==
    /\ Rendered /\ resolved = "Right" /\ options.wrap
    /\ prev.options.wrap /\ h_offset > prev.h_offset

\* C14 (as claimed): construction from styled and plain lines of different
\* lengths fails, so in every reachable state the two sequences have the same
\* length.
C14_EqualLengths == Len(lines) = Len(original_lines)

\* C15: every render that returns with Top pending leaves v_offset = 0, every
\* one with End pending leaves v_offset = max(N - 1, 0), and neither changes
\* h_offset; so scroll_to_top, render, scroll_to_end, render, scroll_to_top,
\* render ends with v_offset = 0.
C15_TopAndEnd ==
    [][(last_op' = "render" /\ ~panicked') =>
          /\ scroll_event = "Top" => (v_offset' = 0 /\ h_offset' = h_offset)
          /\ scroll_event = "End" =>
                (v_offset' = Max(N - 1, 0) /\ h_offset' = h_offset)]_vars

\* A render resolved Top from the last line, where an End had left a panned view.
C15_Witness ==
    /\ Rendered /\ resolved = "Top" /\ v_offset = 0
    /\ N > 1 /\ prev.v_offset = N - 1 /\ h_offset > 0

\* The offset the page-forward rule gives from st.v_offset at the given text
\* width and height: with k the least count of lines from v_offset on whose
\* heights sum to height or more, v_offset + k when the sum is height and
\* v_offset + k - 1 when it is more; the last line when there is no such k.
PageForwardRule(st, width, height) ==
    LET v == st.v_offset
        Sum(k) == Rows(st, v, v + k - 1, width)
        counts == {k \in 0..SatSub(Len(st.lines), v) : Sum(k) >= height}
        least == CHOOSE k \in counts : \A j \in counts : k <= j
    IN IF counts = {} THEN Max(Len(st.lines) - 1, 0)
       ELSE IF Sum(least) = height THEN v + least
       ELSE v + least - 1

\* C16: wherever PageForward is pending, the render that returns, in whatever
\* area and build, leaves the offset of the page-forward rule for the text width
\* and height of the area.
C16_PageForwardRule ==
    (scroll_event = "PageForward" /\ ~panicked) =>
        \A w \in AreaWidths, h \in AreaHeights :
           \A checks \in Builds(State, w, h) :
              LET g == Geometry(State, w, h, checks)
              IN ~g.panicked =>
                    Resolved(State, g).v_offset
                       = PageForwardRule(State, g.text_area_width,
                                         g.show_lines_count)

\* A render resolved PageForward on wrapped text and advanced by one line, short
\* of the last line.
C16_Witness ==
    /\ Rendered /\ resolved = "PageForward" /\ options.wrap
    /\ v_offset = prev.v_offset + 1 /\ v_offset < N - 1

\* The offset the page-backward rule gives from st.v_offset at the given text
\* width and height: with k the least count of lines before v_offset, nearest
\* first, whose heights sum to height or more, v_offset - k when the sum is
\* height and v_offset - k + 1 when it is more; 0 when there is no such k.
PageBackwardRule(st, width, height) ==
    LET v == st.v_offset
        Sum(k) == Rows(st, v - k, v - 1, width)
        counts == {k \in 0..v : Sum(k) >= height}
        least == CHOOSE k \in counts : \A j \in counts : k <= j
    IN IF counts = {} THEN 0
       ELSE IF Sum(least) = height THEN v - least
       ELSE v - least + 1

\* C17: wherever PageBackward is pending, the render that returns, in whatever
\* area and build, leaves the offset v' of the page-backward rule for the text
\* width and height of the area, and when v' < v_offset the lines
\* v'..v_offset-1 fit in the rows of the area.
C17_PageBackwardRule ==
    (scroll_event = "PageBackward" /\ ~panicked) =>
        \A w \in AreaWidths, h \in AreaHeights :
           \A checks \in Builds(State, w, h) :
              LET g == Geometry(State, w, h, checks)
                  after == Resolved(State, g).v_offset
              IN ~g.panicked =>
                    /\ after = PageBackwardRule(State, g.text_area_width,
                                                g.show_lines_count)
                    /\ after < v_offset =>
                          Rows(State, after, v_offset - 1, g.text_area_width)
                             <= g.show_lines_count

\* A render resolved PageBackward on wrapped text and moved up, short of the
\* first line.
C17_Witness ==
    /\ Rendered /\ resolved = "PageBackward" /\ options.wrap
    /\ v_offset < prev.v_offset /\ v_offset > 0

\* What the gutter shows on row r (0-based): a row past its last one is blank.
GutterRow(gutter, r) == IF r + 1 <= Len(gutter) THEN gutter[r + 1] ELSE Blank

\* C18: after every render with number on, the gutter has at most H rows, and
\* its row r < H shows the number i + 1 of the line at index i, right-justified
\* to max_digits, exactly when the heights of the lines v_offset..i-1 sum to r;
\* every other row is blank.
C18_GutterRows ==
    (Rendered /\ options.number) =>
        LET g == FixtureGeometry
            gutter == FixtureFrame.line_numbers
            Starts(r) == {i \in v_offset..(N - 1) :
                             Rows(State, v_offset, i - 1, g.text_area_width) = r}
        IN /\ Len(gutter) <= g.show_lines_count
           /\ \A r \in 0..(g.show_lines_count - 1) :
                 /\ Cardinality(Starts(r)) <= 1
                 /\ \A i \in Starts(r) :
                       GutterRow(gutter, r) = Label(i + 1, max_digits)
                 /\ Starts(r) = {} => GutterRow(gutter, r) = Blank

\* The wrapped fixture was rendered with its three-row line 14 on top: its
\* number, two blank continuation rows, then 15 and 16.
C18_Witness ==
    /\ Rendered /\ options.number /\ options.wrap /\ v_offset = 13
    /\ FixtureFrame.line_numbers
          = << <<0, 14>>, Blank, Blank, <<0, 15>>, <<0, 16>> >>

\* C19 (as claimed): from every reachable state, a render that returns with
\* Forward pending leaves v_offset = min(v_offset + 1, N - 1) (N - 1 floored at
\* 0), one with Backward pending leaves max(v_offset - 1, 0), whatever the area
\* and the wrap option, and neither changes h_offset.
C19_LineStep ==
    [][(last_op' = "render" /\ ~panicked') =>
          /\ scroll_event = "Forward" =>
                /\ v_offset' = Min(v_offset + 1, Max(N - 1, 0))
                /\ h_offset' = h_offset
          /\ scroll_event = "Backward" =>
                /\ v_offset' = Max(v_offset - 1, 0)
                /\ h_offset' = h_offset]_vars

\* C20: a render with nothing pending changes no state, whatever the area and
\* whether or not it returns: the offsets, the options, the line data and the
\* (absent) pending event are the same after as before; and the blocks a render
\* of any area paints from the state after are those it paints from the state
\* before, so they depend on the state and the area only, not on the renders
\* that went before.
C20_RenderNoneChangesNothing ==
    [][(last_op' = "render" /\ scroll_event = None) =>
          /\ State' = State
          /\ title' = title
          /\ \A w \in AreaWidths, h \in AreaHeights :
                \A checks \in Builds(State, w, h) :
                    RenderFrame(State', w, h, checks)
                        = RenderFrame(State, w, h, checks)]_vars

\* Two renders in a row with nothing pending, the second of a numbered, panned
\* view scrolled down: the state did not move.
C20_Witness ==
    /\ Rendered /\ resolved = None /\ setter_calls = 0
    /\ options.number /\ v_offset > 0 /\ h_offset > 0
    /\ prev.v_offset = v_offset /\ prev.h_offset = h_offset
    /\ prev.options = options

\* C21 (as claimed): whatever event is pending, the body a render paints is the
\* styled lines v .. min(v + H, N) - 1 in order, v being the v_offset that
\* render leaves once it has resolved the event; with wrap off it is not
\* wrapped and is panned to the column h_offset the render leaves, with wrap on
\* it is wrapped and not panned.
C21_BodyBlock ==
    ~panicked =>
        LET g == FixtureGeometry
            after == Resolved(State, g)
            body == Painted(after, g).body
            v == after.v_offset
        IN /\ body.lines = [i \in 1..(Min(v + g.show_lines_count, N) - Min(v, N))
                               |-> lines[v + i]]
           /\ after.options.wrap => (body.wrap /\ body.scroll = 0)
           /\ ~after.options.wrap =>
                 (~body.wrap /\ body.scroll = after.h_offset)

RECURSIVE RowsShown(_, _, _)
\* The rows the lines ls take together in a body paragraph width columns wide.
RowsShown(ls, width, wrap) ==
    IF ls = <<>> THEN 0
    ELSE ParagraphRows(Head(ls), width, wrap) + RowsShown(Tail(ls), width, wrap)

\* C22 (as claimed): whenever a render resolves PageForward and moves v_offset
\* from v to v' > v, the heights of lines v..v'-1 sum to at most H, and each of
\* these lines was shown in full by the body painted with line v on top: they
\* take at most H rows of that paragraph.
C22_PageForwardSkipsNothing ==
    (scroll_event = "PageForward" /\ ~panicked) =>
        LET g == FixtureGeometry
            after == Resolved(State, g)
            passed == after.v_offset - v_offset
            body == build_lines_paragraph(State, g.show_lines_count)
        IN passed > 0 =>
              /\ Rows(State, v_offset, after.v_offset - 1, g.text_area_width)
                    <= g.show_lines_count
              /\ passed <= Len(body.lines)
              /\ RowsShown(SubSeq(body.lines, 1, passed),
                           BodyTextWidth(g.body_width), body.wrap)
                    <= g.show_lines_count

\* Whether a page step moves, for every render of a paging user that returns:
\* PageForward from v_offset < N - 1 and PageBackward from v_offset > 0, given
\* whether the line the walk starts with (line v_offset forward, line
\* v_offset - 1 backward) fits the rows of the window.
PageSteps(Moves(_, _)) ==
    (N >= 2 /\ ~panicked) =>
        \A w \in AreaWidths, h \in PageHeights :
           \A checks \in Builds(State, w, h) :
              LET g == Geometry(State, w, h, checks)
                  Fits(i) == Rows(State, i, i, g.text_area_width)
                                <= g.show_lines_count
                  fwd == Resolved(Pending(State, "PageForward"), g).v_offset
                  bwd == Resolved(Pending(State, "PageBackward"), g).v_offset
              IN ~g.panicked =>
                    /\ v_offset < N - 1 =>
                          /\ Moves(fwd > v_offset, Fits(v_offset))
                          /\ fwd >= v_offset
                    /\ v_offset > 0 =>
                          /\ Moves(bwd < v_offset, Fits(v_offset - 1))
                          /\ bwd <= v_offset

\* Every line fits the window of the paging user: its height at the text width
\* of the renders that return is at most the rows they have for the text.
WindowFits ==
    window # <<>> =>
        LET g == Geometry(State, window[1], window[2], FALSE)
        IN \A i \in 0..(N - 1) :
              Rows(State, i, i, g.text_area_width) <= g.show_lines_count

\* From some point on the user only pages forward (backward).
KeepsPagingForward == <>[][scroll_event' \in {None, "PageForward"}]_vars
KeepsPagingBackward == <>[][scroll_event' \in {None, "PageBackward"}]_vars

C24_EndIsStable ==
    (N >= 1 /\ v_offset = N - 1 /\ ~panicked
        /\ scroll_event \in {"Forward", "PageForward", "End"}) =>
        \A w \in AreaWidths, h \in AreaHeights :
           \A checks \in Builds(State, w, h) :
              LET g == Geometry(State, w, h, checks)
                  after == Resolved(State, g)
                  body == Painted(after, g).body
              IN ~g.panicked =>
                    /\ after.v_offset = N - 1
                    /\ g.show_lines_count >= 1 => body.lines = <<lines[N]>>

\* The v_offset a render with geometry g leaves from st, the page events by the
\* page rules at the heights st's options give.
OffsetDue(st, g) ==
    CASE st.scroll_event = "PageForward" ->
            PageForwardRule(st, g.text_area_width, g.show_lines_count)
      [] st.scroll_event = "PageBackward" ->
            PageBackwardRule(st, g.text_area_width, g.show_lines_count)
      [] OTHER -> Resolved(st, g).v_offset

\* C25: toggle_wrap and toggle_number leave the pending event as it is, and the
\* render that follows resolves that event with the options the toggle left: on
\* every area it resolves a page event by the page rule at the heights and the
\* text width of the options after the toggle, and the render that does follow
\* consumes the event and leaves the offsets of one such area.
C25_TogglesKeepPending ==
    [][/\ last_op' \in {"toggle_wrap", "toggle_number"} =>
             /\ scroll_event' = scroll_event
             /\ \A w \in AreaWidths, h \in AreaHeights :
                   \A checks \in Builds(State', w, h) :
                      LET g == Geometry(State', w, h, checks)
                      IN ~g.panicked =>
                            Resolved(State', g).v_offset = OffsetDue(State', g)
       /\ (last_op \in {"toggle_wrap", "toggle_number"}
              /\ last_op' = "render" /\ ~panicked') =>
             /\ resolved' = scroll_event /\ scroll_event' = None
             /\ \E w \in AreaWidths, h \in AreaHeights :
                   LET g == Geometry(State, w, h, FALSE)
                   IN /\ v_offset' = OffsetDue(State, g)
                      /\ h_offset' = Resolved(State, g).h_offset]_vars

\* toggle_wrap was called with PageForward pending, and on some area the render
\* to come lands elsewhere than it would have with the options before the toggle.
C25_Witness ==
    /\ last_op = "toggle_wrap" /\ scroll_event = "PageForward" /\ options.wrap
    /\ \E w \in AreaWidths, h \in AreaHeights :
          LET g == Geometry(State, w, h, FALSE)
              before == [State EXCEPT !.options = prev.options]
          IN Resolved(State, g).v_offset # Resolved(before, g).v_offset

\* C26: a scroll setter changes the pending event and nothing else of the state:
\* the offsets, the options, the title and the line data are as before; so
\* v_offset changes in render steps only, and h_offset in render and toggle_wrap
\* steps only.
C26_SettersOnlySetPending ==
    [][/\ last_op' = "set" =>
             /\ scroll_event' = last_setter' /\ scroll_event' # None
             /\ [State' EXCEPT !.scroll_event = scroll_event] = State
             /\ title' = title
       /\ v_offset' # v_offset => last_op' = "render"
       /\ h_offset' # h_offset => last_op' \in {"render", "toggle_wrap"}]_vars

\* A second setter call in a row on a view scrolled down and panned: Top is
\* pending and the offsets have not moved.
C26_Witness ==
    /\ last_op = "set" /\ setter_calls = 2 /\ scroll_event = "Top"
    /\ v_offset > 0 /\ h_offset > 0
    /\ prev.v_offset = v_offset /\ prev.h_offset = h_offset

====
